---- MODULE Spec2Model ----
\* Model of the turnout reconciliation scripts
\*   scripts/build_demographic_turnout.py      (one election,  driver = "single")
\*   scripts/build_demographic_turnout_all.py  (all elections, driver = "all")
\* Tables are sequences of records (DuckDB keeps insertion order); every SQL
\* statement of the scripts is an operator over such sequences.
\*
\* Text values are of two kinds.  Fields the scripts only compare for equality
\* (county, ncid, party, race, ethnicity, sex, age group) are atomic strings and
\* their SQL NULL is NULL.  Fields the scripts parse, slice or case-fold (birth
\* year, count field, election label, statistic type, file name) are sequences
\* of characters and their SQL NULL is NullText.
EXTENDS Integers, Sequences, FiniteSets, TLC

VARIABLES
    driver,                   \* "single" | "all": which script runs
    in_files,                 \* census files on disk: <<[name, rows]>>, in sorted(glob) order
    in_label,                 \* --election_mmddyyyy (single driver only)
    in_ncvhis,                \* rows of the vote-event log file
    in_ncvoter,               \* rows of the voter registry file
    pc,                       \* position in the script
    idx,                      \* loop index into in_files (all driver)
    election,                 \* [mmddyyyy, iso, year] of the election being built
    ncvhis_raw,               \* table ncvhis_raw
    ncvoter_attrs,            \* table ncvoter_attrs
    voter_stats_denominator,  \* table voter_stats_denominator
    ncvhis_election,          \* table ncvhis_election
    voted_ncids,              \* table voted_ncids
    voted_joined,             \* table voted_joined
    qa,                       \* [total_voted, join_mismatches, county_mismatches]
    voted_with_age,           \* table voted_with_age
    voted_aggregated,         \* table voted_aggregated
    turnout_buckets,          \* table turnout_buckets
    turnout_all,              \* table turnout_all (all driver)
    voter_stats_raw,          \* table voter_stats_raw, counts as decimal numerals
    qa_rows,                  \* python list qa_rows (all driver) / qa_summary_tmp (single)
    diag,                     \* single driver: [unmatched, county_mismatch, missing_votes]
    warnings,                 \* file names skipped with [WARN]
    out_csv,                  \* rows written to --out_csv
    a_birth_year,             \* age bucketizer in isolation: birth_year text
    a_year,                   \* age bucketizer in isolation: election year
    a_label                   \* age bucketizer in isolation: resulting age_group

vars == <<driver, in_files, in_label, in_ncvhis, in_ncvoter, pc, idx, election,
          ncvhis_raw, ncvoter_attrs, voter_stats_denominator, ncvhis_election,
          voted_ncids, voted_joined, qa, voted_with_age, voted_aggregated,
          turnout_buckets, turnout_all, qa_rows, diag, warnings, out_csv,
          a_birth_year, a_year, a_label, voter_stats_raw>>

-----------------------------------------------------------------------------
\* Generic sequence helpers

NULL == "<NULL>"

NullText == <<NULL>>

Range(s) == {s[i] : i \in DOMAIN s}

Front(s) == SubSeq(s, 1, Len(s) - 1)

Last(s) == s[Len(s)]

SeqsUpTo(S, n) == UNION {[1..k -> S] : k \in 0..n}

RECURSIVE SumSeq(_)
SumSeq(s) == IF s = <<>> THEN 0 ELSE s[1] + SumSeq(Tail(s))

RECURSIVE Flatten(_)
Flatten(ss) == IF ss = <<>> THEN <<>> ELSE ss[1] \o Flatten(Tail(ss))

\* the distinct elements of s, in order of first occurrence
RECURSIVE DistinctSeq(_)
DistinctSeq(s) ==
    IF s = <<>> THEN <<>>
    ELSE LET r == DistinctSeq(Front(s))
         IN  IF Last(s) \in Range(r) THEN r ELSE Append(r, Last(s))

-----------------------------------------------------------------------------
\* SQL three-valued comparison: a predicate is taken only when it is TRUE

SqlEq(a, b) == a # NULL /\ b # NULL /\ a = b

SqlNeq(a, b) == a # NULL /\ b # NULL /\ a # b

TextEq(a, b) == a # NullText /\ b # NullText /\ a = b

-----------------------------------------------------------------------------
\* Text functions

Digits == {"0", "1", "2", "3", "4", "5", "6", "7", "8", "9"}

DigitVal(c) ==
    CASE c = "0" -> 0 [] c = "1" -> 1 [] c = "2" -> 2 [] c = "3" -> 3
      [] c = "4" -> 4 [] c = "5" -> 5 [] c = "6" -> 6 [] c = "7" -> 7
      [] c = "8" -> 8 [] c = "9" -> 9

RECURSIVE LTrim(_)
LTrim(s) == IF s # <<>> /\ s[1] = " " THEN LTrim(Tail(s)) ELSE s

RECURSIVE RTrim(_)
RTrim(s) == IF s # <<>> /\ Last(s) = " " THEN RTrim(Front(s)) ELSE s

\* SQL trim(): strips spaces on both sides; trim(NULL) is NULL
Trim(s) == IF s = NullText THEN NullText ELSE RTrim(LTrim(s))

IsDigitText(s) == s # <<>> /\ \A i \in DOMAIN s : s[i] \in Digits

\* python str.isdigit()
isdigit(s) == IsDigitText(s)

RECURSIVE DigitsValue(_)
DigitsValue(s) ==
    IF s = <<>> THEN 0 ELSE 10 * DigitsValue(Front(s)) + DigitVal(Last(s))

INT32_MAX == 2147483647

\* The integer a text denotes for CAST(text AS <integer type>): optional
\* surrounding blanks, an optional minus sign, one or more decimal digits.
\* (Decimal points, exponents and '+' are outside the alphabet of the model.)
IntSyntax(s) ==
    LET t == Trim(s)
    IN  /\ t # NullText
        /\ t # <<>>
        /\ IF t[1] = "-" THEN IsDigitText(Tail(t)) ELSE IsDigitText(t)

\* The value of a text of integer syntax, for values of at most 32 bits
IntOf(s) ==
    LET t == Trim(s)
    IN  IF t[1] = "-" THEN 0 - DigitsValue(Tail(t)) ELSE DigitsValue(t)

IsNegative(s) == Trim(s)[1] = "-"

RECURSIVE StripZeros(_)
StripZeros(d) == IF Len(d) > 1 /\ d[1] = "0" THEN StripZeros(Tail(d)) ELSE d

\* the digits of the absolute value of a text of integer syntax
Magnitude(s) ==
    LET t == Trim(s)
    IN  StripZeros(IF t[1] = "-" THEN Tail(t) ELSE t)

\* a <= b for digit sequences of one length
RECURSIVE DigitsLeq(_, _)
DigitsLeq(a, b) ==
    \/ a = <<>>
    \/ DigitVal(a[1]) < DigitVal(b[1])
    \/ a[1] = b[1] /\ DigitsLeq(Tail(a), Tail(b))

\* TRY_CAST(s AS INTEGER) IS NOT NULL: -2147483648 .. 2147483647
CanCastInteger(s) ==
    /\ IntSyntax(s)
    /\ LET m == Magnitude(s)
       IN  \/ Len(m) < 10
           \/ /\ Len(m) = 10
              /\ \/ DigitsValue(Front(m)) < INT32_MAX \div 10
                 \/ /\ DigitsValue(Front(m)) = INT32_MAX \div 10
                    /\ DigitVal(Last(m)) <=
                           (INT32_MAX % 10) + (IF IsNegative(s) THEN 1 ELSE 0)

\* the digits of 9223372036854775807 and of 9223372036854775808
Int64Max(neg) ==
    <<"9", "2", "2", "3", "3", "7", "2", "0", "3", "6", "8", "5", "4", "7", "7", "5",
      "8", "0", IF neg THEN "8" ELSE "7">>

\* TRY_CAST(s AS BIGINT) IS NOT NULL: -9223372036854775808 .. 9223372036854775807
CanCastBigint(s) ==
    /\ IntSyntax(s)
    /\ LET m == Magnitude(s)
       IN  \/ Len(m) < 19
           \/ Len(m) = 19 /\ DigitsLeq(m, Int64Max(IsNegative(s)))

\* the cast value of a text as a decimal numeral, at any width
CountText(s) ==
    LET m == Magnitude(s)
    IN  IF IsNegative(s) /\ m # <<"0">> THEN <<"-">> \o m ELSE m

-----------------------------------------------------------------------------
\* Age Bucketizer: the CASE expression building voted_with_age.age_group

AgeInvalid == "Age < 18 Or Invalid Birth Dates"

Age18 == "Age 18 - 25"

Age26 == "Age 26 - 40"

Age41 == "Age 41 - 65"

Age66 == "Age Over 66"

AgeLabels == {AgeInvalid, Age18, Age26, Age41, Age66}

Between(x, lo, hi) == lo <= x /\ x <= hi

\* faulty variant: the under-age test off by one
AgeGroup_OffByOne(birth_year, election_year) ==
    IF birth_year = NullText \/ Len(Trim(birth_year)) = 0 THEN AgeInvalid
    ELSE IF ~CanCastInteger(Trim(birth_year)) THEN AgeInvalid
    ELSE LET age == election_year - IntOf(Trim(birth_year))
         IN  IF age <= 18 THEN AgeInvalid
             ELSE IF Between(age, 18, 25) THEN Age18
             ELSE IF Between(age, 26, 40) THEN Age26
             ELSE IF Between(age, 41, 65) THEN Age41
             ELSE Age66

AgeGroup(birth_year, election_year) ==
    IF birth_year = NullText \/ Len(Trim(birth_year)) = 0 THEN AgeInvalid
    ELSE IF ~CanCastInteger(Trim(birth_year)) THEN AgeInvalid
    ELSE LET age == election_year - IntOf(Trim(birth_year))
         IN  IF age < 18 THEN AgeInvalid
             ELSE IF Between(age, 18, 25) THEN Age18
             ELSE IF Between(age, 26, 40) THEN Age26
             ELSE IF Between(age, 41, 65) THEN Age41
             ELSE Age66

-----------------------------------------------------------------------------
\* Binary collation of the strings and characters the model uses, ascending

Collation ==
    <<" ", "-", "/", "0", "1", "2", "3", "4", "5", "6", "7", "8", "9",
      "A1", "A2", "A3", "Age 18 - 25", "Age 26 - 40", "Age 41 - 65",
      "Age < 18 Or Invalid Birth Dates", "Age Over 66", "COUNTY_DESC", "DEM", "DURHAM", "F", "M", "NL", "REP",
      "W", "WAKE", "ncid", "x">>

PosIn(s, x) == CHOOSE i \in DOMAIN s : s[i] = x

StrLt(a, b) == PosIn(Collation, a) < PosIn(Collation, b)

\* a sorts strictly before b under ORDER BY ... ASC (DuckDB default NULLS LAST)
OrderBefore(a, b) == a # NULL /\ (b = NULL \/ StrLt(a, b))

\* the same for character sequences (lexicographic, NULLS LAST)
RECURSIVE LexLt(_, _)
LexLt(a, b) ==
    IF b = <<>> THEN FALSE
    ELSE IF a = <<>> THEN TRUE
    ELSE IF a[1] = b[1] THEN LexLt(Tail(a), Tail(b))
    ELSE StrLt(a[1], b[1])

TextOrderBefore(a, b) == a # NullText /\ (b = NullText \/ LexLt(a, b))

LowerChar(c) ==
    CASE c = "V" -> "v" [] c = "O" -> "o" [] c = "T" -> "t"
      [] c = "E" -> "e" [] c = "R" -> "r" [] OTHER -> c

\* SQL lower(); lower(NULL) is NULL
Lower(s) == IF s = NullText THEN NullText ELSE [i \in DOMAIN s |-> LowerChar(s[i])]

-----------------------------------------------------------------------------
\* Election identifiers

\* python str.replace(tok, ""): file names are sequences whose elements are
\* single characters, except the literals "voter_stats_" and ".txt"
Replace(s, tok) == SelectSeq(s, LAMBDA c : c # tok)

RECURSIVE Split(_, _)
Split(s, sep) ==
    IF \A i \in DOMAIN s : s[i] # sep THEN <<s>>
    ELSE LET i == CHOOSE k \in DOMAIN s : s[k] = sep /\ \A j \in 1..(k - 1) : s[j] # sep
         IN  <<SubSeq(s, 1, i - 1)>> \o Split(SubSeq(s, i + 1, Len(s)), sep)

RECURSIVE zfill(_, _)
zfill(s, w) == IF Len(s) >= w THEN s ELSE zfill(<<"0">> \o s, w)

yyyymmdd_to_mmddyyyy(s) ==
    SubSeq(s, 5, 6) \o <<"/">> \o SubSeq(s, 7, 8) \o <<"/">> \o SubSeq(s, 1, 4)

mmddyyyy_to_iso(mmddyyyy) ==
    LET p == Split(mmddyyyy, "/")
    IN  p[3] \o <<"-">> \o zfill(p[1], 2) \o <<"-">> \o zfill(p[2], 2)

\* int(election_iso.split("-")[0])
ElectionYear(iso) == DigitsValue(Split(iso, "-")[1])

\* faulty variant: the extension is not removed
DateToken_KeepExtension(base) == Replace(base, "voter_stats_")

\* base.replace("voter_stats_", "").replace(".txt", "")
DateToken(base) == Replace(Replace(base, "voter_stats_"), ".txt")

\* the loop's test: len(yyyymmdd) == 8 and yyyymmdd.isdigit()
Recognized(base) == Len(DateToken(base)) = 8 /\ isdigit(DateToken(base))

ElectionOf(mmddyyyy) ==
    [mmddyyyy |-> mmddyyyy,
     iso      |-> mmddyyyy_to_iso(mmddyyyy),
     year     |-> ElectionYear(mmddyyyy_to_iso(mmddyyyy))]

NoElection == [mmddyyyy |-> <<>>, iso |-> <<>>, year |-> 0]

-----------------------------------------------------------------------------
\* Core tables

HeaderNcid(ncid) == ncid = "ncid"

HeaderLabel(lbl) == Lower(Trim(lbl)) = <<"election_lbl">>

\* CREATE TABLE ncvhis_raw ... WHERE ... of the all-elections script
LoadNcvhisAll(rows) ==
    SelectSeq(rows, LAMBDA r :
        /\ r.election_lbl # NullText
        /\ Len(Trim(r.election_lbl)) > 0
        /\ ~HeaderLabel(r.election_lbl)
        /\ r.ncid # NULL
        /\ r.ncid # ""
        /\ ~HeaderNcid(r.ncid))

\* CREATE TABLE ncvhis_raw ... WHERE ... of the single-election script
LoadNcvhisSingle(rows) ==
    SelectSeq(rows, LAMBDA r :
        r.election_lbl # NullText /\ Len(Trim(r.election_lbl)) > 0)

\* CREATE TABLE ncvoter_attrs ... WHERE ncid IS NOT NULL AND ... != 'ncid'
LoadNcvoterAttrs(rows) ==
    SelectSeq(rows, LAMBDA r : r.ncid # NULL /\ r.ncid # "" /\ ~HeaderNcid(r.ncid))

\* faulty variant: the WHERE election_lbl = ? clause left out
NcvhisElectionAll_NoFilter(raw, mmddyyyy) == raw

\* CREATE TABLE ncvhis_election of the all-elections script
NcvhisElectionAll(raw, mmddyyyy) ==
    SelectSeq(raw, LAMBDA r : TextEq(r.election_lbl, mmddyyyy))

\* CREATE TABLE ncvhis_election of the single-election script
NcvhisElectionSingle(raw, mmddyyyy) ==
    SelectSeq(raw, LAMBDA r :
        /\ ~HeaderLabel(r.election_lbl)
        /\ TextEq(r.election_lbl, mmddyyyy)
        /\ r.ncid # NULL
        /\ r.ncid # ""
        /\ ~HeaderNcid(r.ncid))

-----------------------------------------------------------------------------
\* Vote Event Deduplicator

\* faulty variant: ORDER BY left out, the first row of the partition in table order wins
FirstOfPartition_TableOrder(ev, id) ==
    LET part == {i \in DOMAIN ev : ev[i].ncid = id}
        i1   == CHOOSE i \in part : \A j \in part : i <= j
    IN  [voted_county_desc |-> ev[i1].county_desc, ncid |-> id]

\* row_number() OVER (PARTITION BY ncid ORDER BY county_desc) = 1: a row of
\* the partition that no other row of the partition sorts before.  Rows that
\* tie on county_desc project to the same (county_desc, ncid) pair.
FirstOfPartition(ev, id) ==
    LET part == {i \in DOMAIN ev : ev[i].ncid = id}
        i1   == CHOOSE i \in part :
                    \A j \in part : ~OrderBefore(ev[j].county_desc, ev[i].county_desc)
    IN  [voted_county_desc |-> ev[i1].county_desc, ncid |-> id]

\* faulty variant: the rn = 1 filter left out
VotedNcids_AllRows(ev) ==
    [i \in DOMAIN ev |-> [voted_county_desc |-> ev[i].county_desc, ncid |-> ev[i].ncid]]

\* CREATE TABLE voted_ncids
VotedNcids(ev) ==
    LET ids == DistinctSeq([i \in DOMAIN ev |-> ev[i].ncid])
    IN  [k \in DOMAIN ids |-> FirstOfPartition(ev, ids[k])]

-----------------------------------------------------------------------------
\* Attribute Joiner and QA

JoinedRow(v, a) ==
    [voted_county_desc |-> v.voted_county_desc,
     reg_county_desc   |-> a.reg_county_desc,
     ncid              |-> v.ncid,
     party_cd          |-> a.party_cd,
     race_code         |-> a.race_code,
     ethnic_code       |-> a.ethnic_code,
     sex_code          |-> a.sex_code,
     birth_year        |-> a.birth_year]

NullAttrs ==
    [reg_county_desc |-> NULL, party_cd |-> NULL, race_code |-> NULL,
     ethnic_code |-> NULL, sex_code |-> NULL, birth_year |-> NullText]

\* the rows voted_ncids row v yields in voted_ncids LEFT JOIN ncvoter_attrs
JoinMatches(v, attrs) ==
    LET m == SelectSeq(attrs, LAMBDA a : SqlEq(v.ncid, a.ncid))
    IN  IF m = <<>> THEN <<JoinedRow(v, NullAttrs)>>
        ELSE [j \in DOMAIN m |-> JoinedRow(v, m[j])]

\* CREATE TABLE voted_joined
VotedJoined(v, attrs) == Flatten([i \in DOMAIN v |-> JoinMatches(v[i], attrs)])

IsJoinMismatch(r) == r.reg_county_desc = NULL

\* faulty variant: the IS NOT NULL guard and SQL's NULL comparison left out
IsCountyMismatch_Unguarded(r) == r.voted_county_desc # r.reg_county_desc

IsCountyMismatch(r) ==
    r.reg_county_desc # NULL /\ SqlNeq(r.voted_county_desc, r.reg_county_desc)

\* faulty variant: the two FILTER clauses attached to the wrong columns
QaCounts_Swapped(vj) ==
    [total_voted       |-> Len(vj),
     join_mismatches   |-> Cardinality({i \in DOMAIN vj : IsCountyMismatch(vj[i])}),
     county_mismatches |-> Cardinality({i \in DOMAIN vj : IsJoinMismatch(vj[i])})]

\* the QA query over voted_joined
QaCounts(vj) ==
    [total_voted       |-> Len(vj),
     join_mismatches   |-> Cardinality({i \in DOMAIN vj : IsJoinMismatch(vj[i])}),
     county_mismatches |-> Cardinality({i \in DOMAIN vj : IsCountyMismatch(vj[i])})]

NoQa == [total_voted |-> 0, join_mismatches |-> 0, county_mismatches |-> 0]

-----------------------------------------------------------------------------
\* Rates: a DOUBLE quotient n * 1.0 / d is kept as the exact fraction in lowest
\* terms with a positive denominator; NullRate is SQL NULL

Abs(x) == IF x < 0 THEN 0 - x ELSE x

RECURSIVE Gcd(_, _)
Gcd(a, b) == IF b = 0 THEN a ELSE Gcd(b, a % b)

NullRate == <<>>

Rate(n, d) ==
    LET g == Gcd(Abs(n), Abs(d))
        sg == IF d < 0 THEN 0 - 1 ELSE 1
    IN  <<(sg * n) \div g, (sg * d) \div g>>

\* python: (n / d) if d else 0.0
RateOrZero(n, d) == IF d # 0 THEN Rate(n, d) ELSE <<0, 1>>

QaRow(e, q) ==
    [election_date           |-> e.iso,
     election_lbl            |-> e.mmddyyyy,
     total_voted_ncids       |-> q.total_voted,
     join_mismatches_dropped |-> q.join_mismatches,
     join_mismatch_rate      |-> RateOrZero(q.join_mismatches, q.total_voted),
     county_mismatches_kept  |-> q.county_mismatches,
     county_mismatch_rate    |->
         RateOrZero(q.county_mismatches, q.total_voted - q.join_mismatches)]

-----------------------------------------------------------------------------
\* Bucket Aggregator

\* faulty variant: unmatched rows kept
VotedClean_KeepAll(vj) == vj

\* CREATE TABLE voted_clean
VotedClean(vj) == SelectSeq(vj, LAMBDA r : r.reg_county_desc # NULL)

\* CREATE TABLE voted_with_age
VotedWithAge(vc, election_year) ==
    [i \in DOMAIN vc |->
        [county_desc |-> vc[i].reg_county_desc,
         party_cd    |-> vc[i].party_cd,
         race_code   |-> vc[i].race_code,
         ethnic_code |-> vc[i].ethnic_code,
         sex_code    |-> vc[i].sex_code,
         age_group   |-> AgeGroup(vc[i].birth_year, election_year)]]

\* the 7-column DemographicBucketKey of a row that carries election_date
KeyOf(r) ==
    [election_date |-> r.election_date,
     county_desc   |-> r.county_desc,
     party_cd      |-> r.party_cd,
     race_code     |-> r.race_code,
     ethnic_code   |-> r.ethnic_code,
     sex_code      |-> r.sex_code,
     age_group     |-> r.age_group]

\* the grouping key of a row of one election: ? AS election_date, then columns 2..7
GroupKey(iso, r) ==
    [election_date |-> iso,
     county_desc   |-> r.county_desc,
     party_cd      |-> r.party_cd,
     race_code     |-> r.race_code,
     ethnic_code   |-> r.ethnic_code,
     sex_code      |-> r.sex_code,
     age_group     |-> r.age_group]

WithField(k, name, v) == [f \in DOMAIN k \cup {name} |-> IF f = name THEN v ELSE k[f]]

\* CREATE TABLE voted_aggregated: GROUP BY 1..7 (NULLs group together), COUNT(*)
VotedAggregated(vwa, iso) ==
    LET keys == DistinctSeq([i \in DOMAIN vwa |-> GroupKey(iso, vwa[i])])
    IN  [k \in DOMAIN keys |->
            WithField(keys[k], "voted_count",
                Cardinality({i \in DOMAIN vwa : GroupKey(iso, vwa[i]) = keys[k]}))]

-----------------------------------------------------------------------------
\* Denominator Builder

\* CREATE TABLE voter_stats_raw: rows whose count field casts; the cast type is
\* BIGINT in the all-elections script and INTEGER in the single-election one
VoterStatsRaw(rows, d) ==
    LET ok(r) == IF d = "all" THEN CanCastBigint(r.total_voters)
                 ELSE CanCastInteger(r.total_voters)
        kept == SelectSeq(rows, ok)
    IN  [i \in DOMAIN kept |-> WithField(kept[i], "total_voters", IntOf(kept[i].total_voters))]

\* the same table with each count kept as the numeral of its cast value
VoterStatsRawRows(rows, d) ==
    LET ok(r) == IF d = "all" THEN CanCastBigint(r.total_voters)
                 ELSE CanCastInteger(r.total_voters)
        kept == SelectSeq(rows, ok)
    IN  [i \in DOMAIN kept |->
            WithField(kept[i], "total_voters", CountText(kept[i].total_voters))]

\* faulty variant: the statistic type compared without lower()
IsVoterStat_CaseSensitive(r) == r.stats_type = <<"v", "o", "t", "e", "r">>

IsVoterStat(r) == Lower(r.stats_type) = <<"v", "o", "t", "e", "r">>

\* CREATE TABLE voter_stats_denominator: filter, GROUP BY 1..7, SUM(total_voters)
VoterStatsDenominator(raw, e) ==
    LET sel  == SelectSeq(raw, LAMBDA r :
                    TextEq(r.election_date_raw, e.mmddyyyy) /\ IsVoterStat(r))
        keys == DistinctSeq([i \in DOMAIN sel |-> GroupKey(e.iso, sel[i])])
    IN  [k \in DOMAIN keys |->
            WithField(keys[k], "registered_count",
                SumSeq([i \in DOMAIN sel |->
                    IF GroupKey(e.iso, sel[i]) = keys[k] THEN sel[i].total_voters ELSE 0]))]

-----------------------------------------------------------------------------
\* Reconciler

\* faulty variant: party_cd left out of the ON clause
KeyMatch_NoParty(d, v) ==
    /\ TextEq(d.election_date, v.election_date)
    /\ SqlEq(d.county_desc, v.county_desc)
    /\ SqlEq(d.race_code, v.race_code)
    /\ SqlEq(d.ethnic_code, v.ethnic_code)
    /\ SqlEq(d.sex_code, v.sex_code)
    /\ SqlEq(d.age_group, v.age_group)

\* the ON clause of the numerator/denominator joins: seven SQL equalities
KeyMatch(d, v) ==
    /\ TextEq(d.election_date, v.election_date)
    /\ SqlEq(d.county_desc, v.county_desc)
    /\ SqlEq(d.party_cd, v.party_cd)
    /\ SqlEq(d.race_code, v.race_code)
    /\ SqlEq(d.ethnic_code, v.ethnic_code)
    /\ SqlEq(d.sex_code, v.sex_code)
    /\ SqlEq(d.age_group, v.age_group)

\* faulty variant: a bucket without registrants reported as 0% turnout
TurnoutRate_ZeroPercent(voted, registered) ==
    IF registered = 0 THEN <<0, 1>> ELSE Rate(voted, registered)

\* CASE WHEN d.registered_count = 0 THEN NULL ELSE voted * 1.0 / registered END
TurnoutRate(voted, registered) ==
    IF registered = 0 THEN NullRate ELSE Rate(voted, registered)

\* one output row; voted is COALESCE(v.voted_count, 0)
TurnoutRow(d, voted) ==
    [election_date    |-> d.election_date,
     county_desc      |-> d.county_desc,
     party_cd         |-> d.party_cd,
     race_code        |-> d.race_code,
     ethnic_code      |-> d.ethnic_code,
     sex_code         |-> d.sex_code,
     age_group        |-> d.age_group,
     registered_count |-> d.registered_count,
     voted_count      |-> voted,
     turnout_rate     |-> TurnoutRate(voted, d.registered_count)]

\* faulty variant: INNER JOIN instead of LEFT JOIN
ReconcileMatches_Inner(d, va) ==
    LET m == SelectSeq(va, LAMBDA v : KeyMatch(d, v))
    IN  [j \in DOMAIN m |-> TurnoutRow(d, m[j].voted_count)]

\* the rows denominator row d yields in voter_stats_denominator LEFT JOIN voted_aggregated
ReconcileMatches(d, va) ==
    LET m == SelectSeq(va, LAMBDA v : KeyMatch(d, v))
    IN  IF m = <<>> THEN <<TurnoutRow(d, 0)>>
        ELSE [j \in DOMAIN m |-> TurnoutRow(d, m[j].voted_count)]

\* CREATE TABLE turnout_buckets
TurnoutBuckets(den, va) == Flatten([i \in DOMAIN den |-> ReconcileMatches(den[i], va)])

\* single-election script: SUM(v.voted_count) over voted_aggregated LEFT JOIN
\* voter_stats_denominator WHERE d.county_desc IS NULL; <<>> is SQL NULL (None)
MissingVotes(den, va) ==
    LET un == SelectSeq(va, LAMBDA v : \A i \in DOMAIN den : ~KeyMatch(den[i], v))
    IN  IF un = <<>> THEN <<>>
        ELSE <<SumSeq([i \in DOMAIN un |-> un[i].voted_count])>>

\* single-election script: the statewide print formats SUM(voted_count),
\* SUM(registered_count) with ':,' and the quotient with ':.4f'; a None among
\* them raises TypeError
StatewidePrintable(tb) ==
    tb # <<>> /\ SumSeq([i \in DOMAIN tb |-> tb[i].registered_count]) # 0

-----------------------------------------------------------------------------
\* Export order of the all-elections script

\* faulty variant: party_cd left out of the ORDER BY list
KeyBefore_NoParty(a, b) ==
    \/ TextOrderBefore(a.election_date, b.election_date)
    \/ /\ a.election_date = b.election_date
       /\ \/ OrderBefore(a.county_desc, b.county_desc)
          \/ /\ a.county_desc = b.county_desc
             /\ \/ OrderBefore(a.race_code, b.race_code)
                \/ /\ a.race_code = b.race_code
                   /\ \/ OrderBefore(a.ethnic_code, b.ethnic_code)
                      \/ /\ a.ethnic_code = b.ethnic_code
                         /\ \/ OrderBefore(a.sex_code, b.sex_code)
                            \/ /\ a.sex_code = b.sex_code
                               /\ OrderBefore(a.age_group, b.age_group)

\* ORDER BY election_date, county_desc, party_cd, race_code, ethnic_code,
\* sex_code, age_group: a sorts strictly before b
KeyBefore(a, b) ==
    \/ TextOrderBefore(a.election_date, b.election_date)
    \/ /\ a.election_date = b.election_date
       /\ \/ OrderBefore(a.county_desc, b.county_desc)
          \/ /\ a.county_desc = b.county_desc
             /\ \/ OrderBefore(a.party_cd, b.party_cd)
                \/ /\ a.party_cd = b.party_cd
                   /\ \/ OrderBefore(a.race_code, b.race_code)
                      \/ /\ a.race_code = b.race_code
                         /\ \/ OrderBefore(a.ethnic_code, b.ethnic_code)
                            \/ /\ a.ethnic_code = b.ethnic_code
                               /\ \/ OrderBefore(a.sex_code, b.sex_code)
                                  \/ /\ a.sex_code = b.sex_code
                                     /\ OrderBefore(a.age_group, b.age_group)

IsSorted(t) == \A i, j \in DOMAIN t : i < j => ~KeyBefore(t[j], t[i])

\* every row order the ORDER BY allows (rows that tie on the key in any order)
SortedOrders(t) ==
    {s \in {[i \in DOMAIN t |-> t[p[i]]] : p \in Permutations(DOMAIN t)} : IsSorted(s)}

-----------------------------------------------------------------------------
\* Inputs the model draws from

MaxVotes == 2

MaxAttrs == 2

MaxCensus == 2

L2025 == <<"1", "1", "/", "0", "4", "/", "2", "0", "2", "5">>

L2024 == <<"0", "3", "/", "0", "5", "/", "2", "0", "2", "4">>

F2024 == <<"voter_stats_", "2", "0", "2", "4", "0", "3", "0", "5", ".txt">>

F2025 == <<"voter_stats_", "2", "0", "2", "5", "1", "1", "0", "4", ".txt">>

FBad == <<"voter_stats_", "n", "o", "t", "a", "d", "a", "t", "e", ".txt">>

\* a name with a 4-digit token: voter_stats_2025.txt
FShort == <<"voter_stats_", "2", "0", "2", "5", ".txt">>

\* a second name with the token 20251104: voter_stats_20251104.txt.txt
FDup == <<"voter_stats_", "2", "0", "2", "5", "1", "1", "0", "4", ".txt", ".txt">>

\* the candidate file names in lexical (sorted()) order
FileOrder == <<F2024, FShort, F2025, FDup, FBad>>

\* python sorted() of a set of candidate names
sorted(S) == SelectSeq(FileOrder, LAMBDA n : n \in S)

Vote(lbl, ncid, county) == [election_lbl |-> lbl, ncid |-> ncid, county_desc |-> county]

\* a double vote with two cast counties, a second voter, a vote of another
\* election and the header line of the file
VoteRows ==
    <<Vote(L2025, "A1", "WAKE"), Vote(L2025, "A1", "DURHAM"), Vote(L2025, "A2", "WAKE"),
      Vote(L2024, "A1", "WAKE"), Vote(<<"election_lbl">>, "ncid", "COUNTY_DESC")>>

Attr(ncid, county, party, birth) ==
    [ncid |-> ncid, reg_county_desc |-> county, party_cd |-> party, race_code |-> "W",
     ethnic_code |-> "NL", sex_code |-> "F", birth_year |-> birth]

\* two entries for A1 (a duplicated voter id), an entry without county, an
\* entry without party and birth year
AttrRows ==
    <<Attr("A1", "WAKE", "DEM", <<"1", "9", "8", "0">>),
      Attr("A1", "DURHAM", "DEM", <<"2", "0", "0", "8">>),
      Attr("A2", NULL, "DEM", <<"1", "9", "5", "9">>),
      Attr("A2", "WAKE", NULL, NullText)>>

Census(lbl, stat, party, age, count) ==
    [county_desc |-> "WAKE", election_date_raw |-> lbl, stats_type |-> stat,
     party_cd |-> party, race_code |-> "W", ethnic_code |-> "NL", sex_code |-> "F",
     age_group |-> age, total_voters |-> count]

\* two rows of one bucket (one of them with count 0) and a bucket without party
CensusRows ==
    <<Census(L2025, <<"v", "o", "t", "e", "r">>, "DEM", Age41, <<"2">>),
      Census(L2025, <<"V", "O", "T", "E", "R">>, "DEM", Age41, <<"0">>),
      Census(L2025, <<"v", "o", "t", "e", "r">>, NULL, AgeInvalid, <<"1">>)>>

\* the tables of at most n rows drawn from the candidates c, one per multiset
BagsUpTo(c, n) ==
    {[i \in DOMAIN f |-> c[f[i]]] :
        f \in {g \in SeqsUpTo(DOMAIN c, n) : \A i, j \in DOMAIN g : i < j => g[i] <= g[j]}}

File(name, rows) == [name |-> name, rows |-> rows]

\* the content of a file with an unrecognized name is never read
FileContents(name) ==
    IF Recognized(name) THEN BagsUpTo(CensusRows, MaxCensus) ELSE {<<>>}

\* the sorted(glob(...)) results the model draws from: no file, one
\* unrecognized file, a recognized file followed by an unrecognized one
GlobResults ==
    {<<>>, <<File(FBad, <<>>)>>}
    \cup {<<File(F2025, c), File(FBad, <<>>)>> : c \in FileContents(F2025)}

NoDiag == [unmatched |-> <<>>, county_mismatch |-> <<>>, missing_votes |-> <<>>]

InitTables ==
    /\ idx = 1
    /\ election = NoElection
    /\ ncvhis_raw = <<>>
    /\ ncvoter_attrs = <<>>
    /\ voter_stats_denominator = <<>>
    /\ ncvhis_election = <<>>
    /\ voted_ncids = <<>>
    /\ voted_joined = <<>>
    /\ qa = NoQa
    /\ voted_with_age = <<>>
    /\ voted_aggregated = <<>>
    /\ turnout_buckets = <<>>
    /\ turnout_all = <<>>
    /\ voter_stats_raw = <<>>
    /\ qa_rows = <<>>
    /\ diag = NoDiag
    /\ warnings = <<>>
    /\ out_csv = <<>>

AgeIdle == a_birth_year = NullText /\ a_year = 0 /\ a_label = ""

Init ==
    /\ driver \in {"single", "all"}
    /\ in_ncvhis \in BagsUpTo(VoteRows, MaxVotes)
    /\ in_ncvoter \in BagsUpTo(AttrRows, MaxAttrs)
    /\ IF driver = "all"
       THEN in_files \in GlobResults /\ in_label = <<>>
       ELSE /\ in_files \in {<<File(F2025, c)>> : c \in FileContents(F2025)}
            /\ in_label = L2025
    /\ pc = "start"
    /\ InitTables
    /\ AgeIdle

-----------------------------------------------------------------------------
\* Steps of the scripts

inputs == <<driver, in_files, in_label, in_ncvhis, in_ncvoter>>

age_vars == <<a_birth_year, a_year, a_label>>

\* all: glob found nothing, raise SystemExit
AbortNoFiles ==
    /\ pc = "start" /\ driver = "all" /\ in_files = <<>>
    /\ pc' = "exit"
    /\ UNCHANGED <<inputs, voter_stats_raw, age_vars, idx, election, ncvhis_raw, ncvoter_attrs,
                   voter_stats_denominator, ncvhis_election, voted_ncids, voted_joined,
                   qa, voted_with_age, voted_aggregated, turnout_buckets, turnout_all,
                   qa_rows, diag, warnings, out_csv>>

\* all: load ncvhis_raw and ncvoter_attrs once, create the empty turnout_all
LoadCore ==
    /\ pc = "start" /\ driver = "all" /\ in_files # <<>>
    /\ ncvhis_raw' = LoadNcvhisAll(in_ncvhis)
    /\ ncvoter_attrs' = LoadNcvoterAttrs(in_ncvoter)
    /\ turnout_all' = <<>>
    /\ qa_rows' = <<>>
    /\ pc' = "loop"
    /\ UNCHANGED <<inputs, voter_stats_raw, age_vars, idx, election, voter_stats_denominator,
                   ncvhis_election, voted_ncids, voted_joined, qa, voted_with_age,
                   voted_aggregated, turnout_buckets, diag, warnings, out_csv>>

\* single: the election comes from --election_mmddyyyy
StartSingle ==
    /\ pc = "start" /\ driver = "single"
    /\ election' = ElectionOf(in_label)
    /\ pc' = "denom"
    /\ UNCHANGED <<inputs, voter_stats_raw, age_vars, idx, ncvhis_raw, ncvoter_attrs,
                   voter_stats_denominator, ncvhis_election, voted_ncids, voted_joined,
                   qa, voted_with_age, voted_aggregated, turnout_buckets, turnout_all,
                   qa_rows, diag, warnings, out_csv>>

\* all: loop head, a file whose name carries no 8-digit token is skipped
SkipFile ==
    /\ pc = "loop" /\ idx <= Len(in_files)
    /\ ~Recognized(in_files[idx].name)
    /\ warnings' = Append(warnings, in_files[idx].name)
    /\ idx' = idx + 1
    /\ UNCHANGED <<inputs, voter_stats_raw, age_vars, pc, election, ncvhis_raw, ncvoter_attrs,
                   voter_stats_denominator, ncvhis_election, voted_ncids, voted_joined,
                   qa, voted_with_age, voted_aggregated, turnout_buckets, turnout_all,
                   qa_rows, diag, out_csv>>

\* all: loop head, the election of a recognized file
NextElection ==
    /\ pc = "loop" /\ idx <= Len(in_files)
    /\ Recognized(in_files[idx].name)
    /\ election' = ElectionOf(yyyymmdd_to_mmddyyyy(DateToken(in_files[idx].name)))
    /\ pc' = "denom"
    /\ UNCHANGED <<inputs, voter_stats_raw, age_vars, idx, ncvhis_raw, ncvoter_attrs,
                   voter_stats_denominator, ncvhis_election, voted_ncids, voted_joined,
                   qa, voted_with_age, voted_aggregated, turnout_buckets, turnout_all,
                   qa_rows, diag, warnings, out_csv>>

\* voter_stats_raw and voter_stats_denominator
BuildDenominator ==
    /\ pc = "denom"
    /\ voter_stats_raw' = VoterStatsRawRows(in_files[idx].rows, driver)
    /\ voter_stats_denominator' =
           VoterStatsDenominator(VoterStatsRaw(in_files[idx].rows, driver), election)
    /\ pc' = "numer"
    /\ UNCHANGED <<inputs, age_vars, idx, election, ncvhis_raw, ncvoter_attrs,
                   ncvhis_election, voted_ncids, voted_joined, qa, voted_with_age,
                   voted_aggregated, turnout_buckets, turnout_all, qa_rows, diag,
                   warnings, out_csv>>

\* ncvhis_election and voted_ncids (single: ncvhis_raw is loaded here)
BuildVoted ==
    /\ pc = "numer"
    /\ ncvhis_raw' = IF driver = "single" THEN LoadNcvhisSingle(in_ncvhis) ELSE ncvhis_raw
    /\ ncvhis_election' =
           IF driver = "single" THEN NcvhisElectionSingle(ncvhis_raw', election.mmddyyyy)
           ELSE NcvhisElectionAll(ncvhis_raw', election.mmddyyyy)
    /\ voted_ncids' = VotedNcids(ncvhis_election')
    /\ pc' = "join"
    /\ UNCHANGED <<inputs, voter_stats_raw, age_vars, idx, election, ncvoter_attrs,
                   voter_stats_denominator, voted_joined, qa, voted_with_age,
                   voted_aggregated, turnout_buckets, turnout_all, qa_rows, diag,
                   warnings, out_csv>>

UnmatchedList(vj) ==
    LET u == SelectSeq(vj, IsJoinMismatch)
    IN  [i \in DOMAIN u |-> [ncid |-> u[i].ncid, voted_county_desc |-> u[i].voted_county_desc]]

CountyMismatchList(vj) ==
    LET u == SelectSeq(vj, IsCountyMismatch)
    IN  [i \in DOMAIN u |->
            [ncid |-> u[i].ncid, voted_county_desc |-> u[i].voted_county_desc,
             reg_county_desc |-> u[i].reg_county_desc]]

\* voted_joined, the QA counts and the QA row (single: ncvoter_attrs is loaded
\* here and the two mismatch lists are written)
JoinQA ==
    /\ pc = "join"
    /\ ncvoter_attrs' =
           IF driver = "single" THEN LoadNcvoterAttrs(in_ncvoter) ELSE ncvoter_attrs
    /\ voted_joined' = VotedJoined(voted_ncids, ncvoter_attrs')
    /\ qa' = QaCounts(voted_joined')
    /\ qa_rows' = IF driver = "single" THEN <<QaRow(election, qa')>>
                  ELSE Append(qa_rows, QaRow(election, qa'))
    /\ diag' = IF driver = "single"
               THEN [diag EXCEPT !.unmatched = UnmatchedList(voted_joined'),
                                 !.county_mismatch = CountyMismatchList(voted_joined')]
               ELSE diag
    /\ pc' = "age"
    /\ UNCHANGED <<inputs, voter_stats_raw, age_vars, idx, election, ncvhis_raw,
                   voter_stats_denominator, ncvhis_election, voted_ncids, voted_with_age,
                   voted_aggregated, turnout_buckets, turnout_all, warnings, out_csv>>

\* voted_clean, voted_with_age and voted_aggregated
AgeAggregate ==
    /\ pc = "age"
    /\ voted_with_age' = VotedWithAge(VotedClean(voted_joined), election.year)
    /\ voted_aggregated' = VotedAggregated(voted_with_age', election.iso)
    /\ pc' = "recon"
    /\ UNCHANGED <<inputs, voter_stats_raw, age_vars, idx, election, ncvhis_raw, ncvoter_attrs,
                   voter_stats_denominator, ncvhis_election, voted_ncids, voted_joined,
                   qa, turnout_buckets, turnout_all, qa_rows, diag, warnings, out_csv>>

\* all: turnout_buckets, INSERT INTO turnout_all, next file
ReconcileAll ==
    /\ pc = "recon" /\ driver = "all"
    /\ turnout_buckets' = TurnoutBuckets(voter_stats_denominator, voted_aggregated)
    /\ turnout_all' = turnout_all \o turnout_buckets'
    /\ idx' = idx + 1
    /\ pc' = "loop"
    /\ UNCHANGED <<inputs, voter_stats_raw, age_vars, election, ncvhis_raw, ncvoter_attrs,
                   voter_stats_denominator, ncvhis_election, voted_ncids, voted_joined,
                   qa, voted_with_age, voted_aggregated, qa_rows, diag, warnings, out_csv>>

\* single: turnout_buckets, the CSV, then the [CHECK] prints; the statewide
\* print raises when a sum is None, before the missing-votes check runs
ReconcileSingle ==
    /\ pc = "recon" /\ driver = "single"
    /\ turnout_buckets' = TurnoutBuckets(voter_stats_denominator, voted_aggregated)
    /\ out_csv' = turnout_buckets'
    /\ IF StatewidePrintable(turnout_buckets')
       THEN /\ diag' = [diag EXCEPT !.missing_votes =
                            <<MissingVotes(voter_stats_denominator, voted_aggregated)>>]
            /\ pc' = "done"
       ELSE /\ diag' = diag
            /\ pc' = "crashed"
    /\ UNCHANGED <<inputs, voter_stats_raw, age_vars, idx, election, ncvhis_raw, ncvoter_attrs,
                   voter_stats_denominator, ncvhis_election, voted_ncids, voted_joined,
                   qa, voted_with_age, voted_aggregated, turnout_all, qa_rows, warnings>>

\* all: after the loop, the combined CSV in ORDER BY order and the QA summary
Export ==
    /\ pc = "loop" /\ idx > Len(in_files)
    /\ out_csv' \in SortedOrders(turnout_all)
    /\ pc' = "done"
    /\ UNCHANGED <<inputs, voter_stats_raw, age_vars, idx, election, ncvhis_raw, ncvoter_attrs,
                   voter_stats_denominator, ncvhis_election, voted_ncids, voted_joined,
                   qa, voted_with_age, voted_aggregated, turnout_buckets, turnout_all,
                   qa_rows, diag, warnings>>

Next ==
    \/ AbortNoFiles
    \/ LoadCore
    \/ StartSingle
    \/ SkipFile
    \/ NextElection
    \/ BuildDenominator
    \/ BuildVoted
    \/ JoinQA
    \/ AgeAggregate
    \/ ReconcileAll
    \/ ReconcileSingle
    \/ Export

Spec == Init /\ [][Next]_vars

-----------------------------------------------------------------------------
\* The Age Bucketizer on its own: every birth_year text of at most MaxBirthLen
\* characters over BirthAlphabet, and NULL, against two election years

MaxBirthLen == 4

BirthAlphabet == {"0", "1", "2", "5", "6", "7", "8", "9", " ", "-", "x"}

ElectionYears == {2025, 2026}

InitAge ==
    /\ a_birth_year \in SeqsUpTo(BirthAlphabet, MaxBirthLen) \cup {NullText}
    /\ a_year \in ElectionYears
    /\ a_label = ""
    /\ pc = "age_in"
    /\ driver = "single" /\ in_files = <<>> /\ in_label = <<>>
    /\ in_ncvhis = <<>> /\ in_ncvoter = <<>>
    /\ InitTables

Bucketize ==
    /\ pc = "age_in"
    /\ a_label' = AgeGroup(a_birth_year, a_year)
    /\ pc' = "age_done"
    /\ UNCHANGED <<inputs, voter_stats_raw, a_birth_year, a_year, idx, election, ncvhis_raw,
                   ncvoter_attrs, voter_stats_denominator, ncvhis_election, voted_ncids,
                   voted_joined, qa, voted_with_age, voted_aggregated, turnout_buckets,
                   turnout_all, qa_rows, diag, warnings, out_csv>>

NextAge == Bucketize

SpecAge == InitAge /\ [][NextAge]_vars

-----------------------------------------------------------------------------
\* The Vote Event Deduplicator on its own: every vote-event table of one
\* election of at most MaxEvents rows, in every row order

MaxEvents == 3

DedupRows ==
    {Vote(L2025, n, c) : n \in {"A1", "A2"}, c \in {"DURHAM", "WAKE", NULL}}

InitDedup ==
    /\ ncvhis_election \in SeqsUpTo(DedupRows, MaxEvents)
    /\ pc = "dedup_in"
    /\ driver = "single" /\ in_files = <<>> /\ in_label = <<>>
    /\ in_ncvhis = <<>> /\ in_ncvoter = <<>>
    /\ idx = 1 /\ election = NoElection /\ ncvhis_raw = <<>> /\ ncvoter_attrs = <<>>
    /\ voter_stats_denominator = <<>> /\ voted_ncids = <<>> /\ voted_joined = <<>>
    /\ qa = NoQa /\ voted_with_age = <<>> /\ voted_aggregated = <<>>
    /\ turnout_buckets = <<>> /\ turnout_all = <<>> /\ qa_rows = <<>>
    /\ diag = NoDiag /\ warnings = <<>> /\ out_csv = <<>>
    /\ voter_stats_raw = <<>>
    /\ AgeIdle

Deduplicate ==
    /\ pc = "dedup_in"
    /\ voted_ncids' = VotedNcids(ncvhis_election)
    /\ pc' = "dedup_done"
    /\ UNCHANGED <<inputs, voter_stats_raw, age_vars, idx, election, ncvhis_raw, ncvoter_attrs,
                   voter_stats_denominator, ncvhis_election, voted_joined, qa,
                   voted_with_age, voted_aggregated, turnout_buckets, turnout_all,
                   qa_rows, diag, warnings, out_csv>>

NextDedup == Deduplicate

SpecDedup == InitDedup /\ [][NextDedup]_vars

-----------------------------------------------------------------------------
\* The Denominator Builder on its own, in both scripts: every census file of at
\* most MaxDenRows rows drawn from DenRows

MaxDenRows == 3

\* two rows of one bucket (statistic type in two spellings), an unparseable
\* count, another statistic type, another election date, a bucket without
\* party, a negative count, a row without date, a row without count
DenRows ==
    <<Census(L2025, <<"v", "o", "t", "e", "r">>, "DEM", Age41, <<"2">>),
      Census(L2025, <<"V", "O", "T", "E", "R">>, "DEM", Age41, <<"3">>),
      Census(L2025, <<"v", "o", "t", "e", "r">>, "REP", Age41, <<"x">>),
      Census(L2025, <<"h", "i", "s", "t", "o", "r", "y">>, "DEM", Age41, <<"5">>),
      Census(L2024, <<"v", "o", "t", "e", "r">>, "DEM", Age41, <<"7">>),
      Census(L2025, <<"v", "o", "t", "e", "r">>, NULL, Age41, <<"1">>),
      Census(L2025, <<"V", "o", "t", "e", "r">>, "DEM", Age41, <<"-", "1">>),
      Census(NullText, <<"v", "o", "t", "e", "r">>, "DEM", Age41, <<"4">>),
      Census(L2025, <<"v", "o", "t", "e", "r">>, "REP", Age41, NullText)>>

InitDenominator ==
    /\ driver \in {"single", "all"}
    /\ in_files \in {<<File(F2025, c)>> : c \in BagsUpTo(DenRows, MaxDenRows)}
    /\ in_label = IF driver = "single" THEN L2025 ELSE <<>>
    /\ in_ncvhis = <<>>
    /\ in_ncvoter = <<>>
    /\ pc = "start"
    /\ InitTables
    /\ AgeIdle

NextDenominator ==
    \/ StartSingle
    \/ LoadCore
    \/ NextElection
    \/ BuildDenominator

SpecDenominator == InitDenominator /\ [][NextDenominator]_vars

-----------------------------------------------------------------------------
\* The multi-election run of the all-elections script: every sorted(glob)
\* result over MultiNames, census files of at most MaxMultiCensus rows, a
\* vote-event log of at most MaxMultiVotes rows with votes of both elections

MaxMultiCensus == 2

MaxMultiVotes == 2

MultiNames == {F2024, FShort, F2025, FBad}

\* two buckets of the 2025 election (in descending key order) and one of 2024
MultiCensusRows ==
    <<Census(L2025, <<"v", "o", "t", "e", "r">>, "REP", Age41, <<"4">>),
      Census(L2025, <<"v", "o", "t", "e", "r">>, "DEM", Age41, <<"2">>),
      Census(L2024, <<"v", "o", "t", "e", "r">>, "DEM", Age41, <<"3">>)>>

MultiVoteRows ==
    <<Vote(L2025, "A1", "WAKE"), Vote(L2024, "A1", "DURHAM"), Vote(L2024, "A2", "DURHAM")>>

\* the registry knows A1 only
MultiRegistry == <<Attr("A1", "WAKE", "DEM", <<"1", "9", "8", "0">>)>>

\* the tables of at most n distinct rows of the candidates c, in candidate order
SetsUpTo(c, n) ==
    {[i \in DOMAIN f |-> c[f[i]]] :
        f \in {g \in SeqsUpTo(DOMAIN c, n) : \A i, j \in DOMAIN g : i < j => g[i] < g[j]}}

\* the files of the given names, with every content
FilesNamed(names) ==
    {[i \in DOMAIN names |-> File(names[i], c[i])] :
        c \in {d \in [DOMAIN names -> SetsUpTo(MultiCensusRows, MaxMultiCensus)] :
                  \A i \in DOMAIN names : ~Recognized(names[i]) => d[i] = <<>>}}

MultiGlob == UNION {FilesNamed(sorted(S)) : S \in SUBSET MultiNames}

InitMulti ==
    /\ driver = "all"
    /\ in_files \in MultiGlob
    /\ in_label = <<>>
    /\ in_ncvhis \in SetsUpTo(MultiVoteRows, MaxMultiVotes)
    /\ in_ncvoter = MultiRegistry
    /\ pc = "start"
    /\ InitTables
    /\ AgeIdle

NextMulti ==
    \/ AbortNoFiles
    \/ LoadCore
    \/ SkipFile
    \/ NextElection
    \/ BuildDenominator
    \/ BuildVoted
    \/ JoinQA
    \/ AgeAggregate
    \/ ReconcileAll
    \/ Export

SpecMulti == InitMulti /\ [][NextMulti]_vars

-----------------------------------------------------------------------------
\* The all-elections script over glob results in which two paths carry the
\* same date token: voter_stats_*.txt matches voter_stats_20251104.txt and
\* voter_stats_20251104.txt.txt, and both reduce to 20251104

GlobNames == {F2024, F2025, FDup}

InitGlob ==
    /\ driver = "all"
    /\ in_files \in UNION {FilesNamed(sorted(S)) : S \in SUBSET GlobNames}
    /\ in_label = <<>>
    /\ in_ncvhis \in SetsUpTo(MultiVoteRows, MaxMultiVotes)
    /\ in_ncvoter = MultiRegistry
    /\ pc = "start"
    /\ InitTables
    /\ AgeIdle

NextGlob ==
    \/ AbortNoFiles
    \/ LoadCore
    \/ NextElection
    \/ BuildDenominator
    \/ BuildVoted
    \/ JoinQA
    \/ AgeAggregate
    \/ ReconcileAll
    \/ Export

SpecGlob == InitGlob /\ [][NextGlob]_vars

-----------------------------------------------------------------------------
\* CREATE TABLE voter_stats_raw of either script on its own, over count
\* fields on both sides of the 32-bit limits: the single-election script
\* casts the field AS INTEGER, the all-elections script AS BIGINT

MaxCastRows == 2

CastTexts ==
    <<<<"7">>,
      <<"0", "0", "0", "0", "0", "0", "0", "0", "0", "0", "7">>,
      <<"2", "1", "4", "7", "4", "8", "3", "6", "4", "7">>,
      <<"2", "1", "4", "7", "4", "8", "3", "6", "4", "8">>,
      <<"-", "2", "1", "4", "7", "4", "8", "3", "6", "4", "8">>,
      <<"-", "2", "1", "4", "7", "4", "8", "3", "6", "4", "9">>,
      <<"3", "0", "0", "0", "0", "0", "0", "0", "0", "0">>,
      <<" ", "5", " ">>,
      <<"x">>,
      <<"-">>,
      <<>>,
      NullText>>

\* one census row of the election per count text, and two rows with a wide
\* count that the denominator does not count
CastRows ==
    [i \in DOMAIN CastTexts |->
        Census(L2025, <<"v", "o", "t", "e", "r">>, "DEM", Age41, CastTexts[i])]
    \o <<Census(L2025, <<"h", "i", "s", "t", "o", "r", "y">>, "DEM", Age41,
                <<"3", "0", "0", "0", "0", "0", "0", "0", "0", "0">>),
         Census(L2024, <<"v", "o", "t", "e", "r">>, "DEM", Age41,
                <<"3", "0", "0", "0", "0", "0", "0", "0", "0", "0">>)>>

InitCast ==
    /\ driver \in {"single", "all"}
    /\ in_files \in {<<File(F2025, c)>> : c \in SetsUpTo(CastRows, MaxCastRows)}
    /\ in_label = IF driver = "single" THEN L2025 ELSE <<>>
    /\ in_ncvhis = <<>>
    /\ in_ncvoter = <<>>
    /\ pc = "start"
    /\ InitTables
    /\ AgeIdle

\* CREATE TABLE voter_stats_raw alone
LoadCensus ==
    /\ pc = "denom"
    /\ voter_stats_raw' = VoterStatsRawRows(in_files[idx].rows, driver)
    /\ pc' = "cast_done"
    /\ UNCHANGED <<inputs, age_vars, idx, election, ncvhis_raw, ncvoter_attrs,
                   voter_stats_denominator, ncvhis_election, voted_ncids, voted_joined,
                   qa, voted_with_age, voted_aggregated, turnout_buckets, turnout_all,
                   qa_rows, diag, warnings, out_csv>>

NextCast ==
    \/ StartSingle
    \/ LoadCore
    \/ NextElection
    \/ LoadCensus

SpecCast == InitCast /\ [][NextCast]_vars

-----------------------------------------------------------------------------
\* Properties

\* voted_joined and qa hold the current election's join
Joined == pc \in {"age", "recon", "loop", "done", "crashed"} /\ election # NoElection

\* voted_with_age and voted_aggregated hold the current election's numerator
Aggregated == pc \in {"recon", "loop", "done", "crashed"} /\ election # NoElection

\* turnout_buckets holds the current election's reconciliation
Reconciled == pc \in {"loop", "done", "crashed"} /\ election # NoElection

\* the sum of voted_count over the rows of table t
SumVoted(t) == SumSeq([i \in DOMAIN t |-> t[i].voted_count])

RateLaw(r) ==
    /\ r.turnout_rate = NullRate <=> r.registered_count = 0
    /\ r.registered_count # 0 =>
          /\ Len(r.turnout_rate) = 2
          /\ r.turnout_rate[2] # 0
          /\ r.turnout_rate[1] * r.registered_count = r.voted_count * r.turnout_rate[2]

\* C1: in every row of the turnout-bucket table (the per-election table, the
\* accumulated table and the exported rows, in both scripts) turnout_rate is
\* NULL exactly when registered_count = 0, and otherwise it is the quotient
\* voted_count / registered_count with a nonzero divisor.
C1_TurnoutNullLaw ==
    \A t \in {turnout_buckets, turnout_all, out_csv} : \A i \in DOMAIN t : RateLaw(t[i])

\* a bucket without registrants that received a vote
C1_Witness ==
    \E i \in DOMAIN turnout_buckets :
        /\ turnout_buckets[i].registered_count = 0
        /\ turnout_buckets[i].voted_count > 0
        /\ turnout_buckets[i].turnout_rate = NullRate

\* C2: after the reconciliation of an election the turnout-bucket table has
\* one row per denominator bucket, every denominator key occurs in exactly one
\* row, and a row whose key equals no key of the voted-bucket table has
\* voted_count = 0.
C2_EveryDenominatorOnce ==
    Reconciled =>
        /\ Len(turnout_buckets) = Len(voter_stats_denominator)
        /\ \A i \in DOMAIN voter_stats_denominator :
              Cardinality({j \in DOMAIN turnout_buckets :
                  KeyOf(turnout_buckets[j]) = KeyOf(voter_stats_denominator[i])}) = 1
        /\ \A j \in DOMAIN turnout_buckets :
              (\A k \in DOMAIN voted_aggregated :
                  KeyOf(voted_aggregated[k]) # KeyOf(turnout_buckets[j]))
              => turnout_buckets[j].voted_count = 0

\* two denominator buckets, one with votes and one whose key no voted bucket has
C2_Witness ==
    /\ Reconciled
    /\ Len(voter_stats_denominator) = 2
    /\ \E j \in DOMAIN turnout_buckets : turnout_buckets[j].voted_count > 0
    /\ \E j \in DOMAIN turnout_buckets :
          /\ turnout_buckets[j].voted_count = 0
          /\ \A k \in DOMAIN voted_aggregated :
                KeyOf(voted_aggregated[k]) # KeyOf(turnout_buckets[j])

VoterIds(ev) == {ev[i].ncid : i \in DOMAIN ev}

\* C3: the deduplicated table has exactly one row per distinct voter id of the
\* election's vote events: as many rows as distinct ids, and every id present.
C3_OneRowPerVoter ==
    pc = "dedup_done" =>
        /\ Len(voted_ncids) = Cardinality(VoterIds(ncvhis_election))
        /\ {voted_ncids[i].ncid : i \in DOMAIN voted_ncids} = VoterIds(ncvhis_election)

\* three vote events of two voters
C3_Witness ==
    /\ pc = "dedup_done"
    /\ Len(ncvhis_election) = 3
    /\ Len(voted_ncids) = 2

\* the smallest cast county among the rows of voter id: "DURHAM" before "WAKE",
\* a missing county last
SmallestCounty(ev, id) ==
    LET cs == {ev[i].county_desc : i \in {j \in DOMAIN ev : ev[j].ncid = id}}
    IN  IF "DURHAM" \in cs THEN "DURHAM" ELSE IF "WAKE" \in cs THEN "WAKE" ELSE NULL

Reordered(ev, p) == [i \in DOMAIN ev |-> ev[p[i]]]

\* C4: the row kept for a voter carries the smallest cast county among that
\* voter's rows, and every reordering of the vote events yields the same kept
\* rows.
C4_KeepsSmallestCounty ==
    pc = "dedup_done" =>
        /\ \A i \in DOMAIN voted_ncids :
              voted_ncids[i].voted_county_desc =
                  SmallestCounty(ncvhis_election, voted_ncids[i].ncid)
        /\ \A p \in Permutations(DOMAIN ncvhis_election) :
              Range(VotedNcids(Reordered(ncvhis_election, p))) = Range(voted_ncids)

\* voter A1 with the WAKE row before the DURHAM row: DURHAM is kept
C4_Witness ==
    /\ pc = "dedup_done"
    /\ Len(ncvhis_election) >= 2
    /\ ncvhis_election[1] = Vote(L2025, "A1", "WAKE")
    /\ ncvhis_election[2] = Vote(L2025, "A1", "DURHAM")
    /\ \E i \in DOMAIN voted_ncids :
          voted_ncids[i] = [voted_county_desc |-> "DURHAM", ncid |-> "A1"]

HasRegistryEntry(id) == \E i \in DOMAIN ncvoter_attrs : ncvoter_attrs[i].ncid = id

\* C5: a row of the attributed vote-event table has registered_county NULL
\* exactly when its voter id has no entry in the registry.
C5_NullCountyIffNoMatch ==
    Joined =>
        \A i \in DOMAIN voted_joined :
            voted_joined[i].reg_county_desc = NULL <=> ~HasRegistryEntry(voted_joined[i].ncid)

\* C6: total_voted equals the row count of the deduplicated vote events, the
\* number of distinct voter ids that voted in the election.
C6_TotalVotedIsDedupedCount ==
    Joined =>
        /\ qa.total_voted = Len(voted_ncids)
        /\ qa.total_voted = Cardinality(VoterIds(ncvhis_election))

\* the rows of voted_joined that carry a registered county
MatchedRows == {i \in DOMAIN voted_joined : voted_joined[i].reg_county_desc # NULL}

\* C7: join_mismatches <= total_voted, the matched rows number exactly
\* total_voted - join_mismatches, county_mismatches <= that number, and no row
\* counts as both kinds of mismatch.
C7_QaCountIdentities ==
    Joined =>
        /\ qa.join_mismatches <= qa.total_voted
        /\ Cardinality(MatchedRows) = qa.total_voted - qa.join_mismatches
        /\ qa.county_mismatches <= qa.total_voted - qa.join_mismatches
        /\ qa.join_mismatches + qa.county_mismatches <= qa.total_voted

\* an election with a join mismatch, a county mismatch and nothing else
C7_Witness ==
    /\ Joined
    /\ qa.total_voted = 2
    /\ qa.join_mismatches = 1
    /\ qa.county_mismatches = 1

\* the bucketizer's policy as the spec tabulates it
AgePolicy(birth_year, election_year) ==
    IF birth_year = NullText THEN AgeInvalid
    ELSE IF Trim(birth_year) = <<>> THEN AgeInvalid
    ELSE IF ~CanCastInteger(birth_year) THEN AgeInvalid
    ELSE LET age == election_year - IntOf(birth_year)
         IN  CASE age < 18 -> AgeInvalid
               [] age \in 18..25 -> Age18
               [] age \in 26..40 -> Age26
               [] age \in 41..65 -> Age41
               [] age > 65 -> Age66

AgeExample(year, birth, label) ==
    (a_year = year /\ a_birth_year = birth) => a_label = label

\* C8: the age group is one of the five labels, decided in the stated
\* precedence (missing, empty or unparseable birth year; age < 18; 18..25;
\* 26..40; 41..65; over 65), with the stated examples for election year 2025.
C8_AgeBucketPolicy ==
    pc = "age_done" =>
        /\ a_label \in AgeLabels
        /\ a_label = AgePolicy(a_birth_year, a_year)
        /\ AgeExample(2025, <<"2", "0", "0", "7">>, Age18)
        /\ AgeExample(2025, <<"2", "0", "0", "8">>, AgeInvalid)
        /\ AgeExample(2025, <<"1", "9", "6", "0">>, Age41)
        /\ AgeExample(2025, <<"1", "9", "5", "9">>, Age66)
        /\ AgeExample(2025, NullText, AgeInvalid)

\* election year 2025, birth year 2007: age 18
C8_Witness ==
    /\ pc = "age_done"
    /\ a_year = 2025
    /\ a_birth_year = <<"2", "0", "0", "7">>
    /\ a_label = Age18

\* the numerator the scripts build from the deduplicated vote events vn
NumeratorOf(vn) ==
    VotedAggregated(
        VotedWithAge(VotedClean(VotedJoined(vn, ncvoter_attrs)), election.year),
        election.iso)

BucketCount(va, K) ==
    SumSeq([i \in DOMAIN va |-> IF KeyOf(va[i]) = K THEN va[i].voted_count ELSE 0])

Without(t, k) == [i \in 1..(Len(t) - 1) |-> IF i < k THEN t[i] ELSE t[i + 1]]

\* the bucket of registry entry a in the current election
BucketOfEntry(a) ==
    [election_date |-> election.iso,
     county_desc   |-> a.reg_county_desc,
     party_cd      |-> a.party_cd,
     race_code     |-> a.race_code,
     ethnic_code   |-> a.ethnic_code,
     sex_code      |-> a.sex_code,
     age_group     |-> AgeGroup(a.birth_year, election.year)]

\* deduplicated vote event v matches registry entry a and was cast elsewhere
CastElsewhere(v, a) ==
    /\ a.ncid = v.ncid
    /\ a.reg_county_desc # NULL
    /\ v.voted_county_desc # NULL
    /\ a.reg_county_desc # v.voted_county_desc

\* C9: a vote event matched to a registry entry of another county than the
\* cast county adds exactly 1 to the numerator, in the bucket of the
\* registered county, and exactly 1 to county_mismatches.
C9_CountyMismatchKept ==
    Aggregated =>
        \A k \in DOMAIN voted_ncids : \A a \in Range(ncvoter_attrs) :
            CastElsewhere(voted_ncids[k], a) =>
                LET rest == Without(voted_ncids, k)
                IN  /\ BucketCount(voted_aggregated, BucketOfEntry(a))
                         - BucketCount(NumeratorOf(rest), BucketOfEntry(a)) = 1
                    /\ SumVoted(voted_aggregated)
                         - SumVoted(NumeratorOf(rest)) = 1
                    /\ qa.county_mismatches
                         - QaCounts(VotedJoined(rest, ncvoter_attrs)).county_mismatches = 1

\* the key the scripts group matched row r of voted_joined under
KeyOfJoined(r) ==
    [election_date |-> election.iso,
     county_desc   |-> r.reg_county_desc,
     party_cd      |-> r.party_cd,
     race_code     |-> r.race_code,
     ethnic_code   |-> r.ethnic_code,
     sex_code      |-> r.sex_code,
     age_group     |-> AgeGroup(r.birth_year, election.year)]

\* C10: the voted counts of an election sum to total_voted - join_mismatches,
\* each bucket's voted_count is the number of matched rows carrying its key
\* and is at least 1, and every matched row's key has exactly one bucket.
C10_NumeratorCountsMatchedRows ==
    Aggregated =>
        /\ SumVoted(voted_aggregated) = qa.total_voted - qa.join_mismatches
        /\ \A b \in DOMAIN voted_aggregated :
              /\ voted_aggregated[b].voted_count =
                    Cardinality({i \in MatchedRows :
                        KeyOfJoined(voted_joined[i]) = KeyOf(voted_aggregated[b])})
              /\ voted_aggregated[b].voted_count >= 1
        /\ \A i \in MatchedRows :
              Cardinality({b \in DOMAIN voted_aggregated :
                  KeyOf(voted_aggregated[b]) = KeyOfJoined(voted_joined[i])}) = 1

\* an election with an unmatched vote event and a matched one
C10_Witness ==
    /\ Aggregated
    /\ qa.total_voted = 2
    /\ qa.join_mismatches = 1
    /\ Len(voted_aggregated) = 1
    /\ voted_aggregated[1].voted_count = 1

\* the denominator of the current election has just been built
DenominatorBuilt == pc = "numer"

\* the rows of the census file being processed
CensusFile == in_files[idx].rows

\* 'voter' in any mix of upper and lower case
IsVoterType(st) ==
    /\ Len(st) = 5
    /\ st[1] \in {"v", "V"} /\ st[2] \in {"o", "O"} /\ st[3] \in {"t", "T"}
    /\ st[4] \in {"e", "E"} /\ st[5] \in {"r", "R"}

\* census row r counts toward the denominator of the current election
Counts(r) ==
    /\ IntSyntax(r.total_voters)
    /\ IsVoterType(r.stats_type)
    /\ r.election_date_raw = election.mmddyyyy

CountingKeys == {GroupKey(election.iso, CensusFile[i]) : i \in {j \in DOMAIN CensusFile : Counts(CensusFile[j])}}

\* the sum of the count fields of the counting rows with key K
RegisteredIn(K) ==
    SumSeq([i \in DOMAIN CensusFile |->
        IF Counts(CensusFile[i]) /\ GroupKey(election.iso, CensusFile[i]) = K
        THEN IntOf(CensusFile[i].total_voters) ELSE 0])

NoNullColumn(k) ==
    /\ k.election_date # NullText
    /\ \A f \in {"county_desc", "party_cd", "race_code", "ethnic_code", "sex_code", "age_group"} :
          k[f] # NULL

\* numerator bucket v has a denominator match: a denominator bucket with the
\* same key, equal column by column (a missing value equals nothing)
HasDenominator(v) ==
    /\ NoNullColumn(KeyOf(v))
    /\ \E i \in DOMAIN voter_stats_denominator :
          KeyOf(voter_stats_denominator[i]) = KeyOf(v)

C13_MissingVotesReported ==
    (Reconciled /\ MissingVotes(voter_stats_denominator, voted_aggregated) # <<>>) =>
        diag.missing_votes = <<MissingVotes(voter_stats_denominator, voted_aggregated)>>

\* the deduplicated vote events without a registry entry, with their cast county
UnmatchedVoters ==
    {[ncid |-> voted_ncids[i].ncid, voted_county_desc |-> voted_ncids[i].voted_county_desc] :
        i \in {j \in DOMAIN voted_ncids : ~HasRegistryEntry(voted_ncids[j].ncid)}}

\* the matched vote events cast in another county than the registered one
CountyMismatchedVoters ==
    {[ncid |-> voted_ncids[i].ncid, voted_county_desc |-> voted_ncids[i].voted_county_desc,
      reg_county_desc |-> a.reg_county_desc] :
        <<i, a>> \in {<<j, b>> \in (DOMAIN voted_ncids) \X Range(ncvoter_attrs) :
                          CastElsewhere(voted_ncids[j], b)}}

\* C14: once the join of an election is done, in both scripts, the unmatched
\* list holds exactly the deduplicated voter ids without registry match with
\* their cast county, the county-mismatch list exactly the matched voter ids
\* cast elsewhere with both counties, and the lists have join_mismatches and
\* county_mismatches rows.
C14_DiagnosticLists ==
    Joined =>
        /\ Range(diag.unmatched) = UnmatchedVoters
        /\ Range(diag.county_mismatch) = CountyMismatchedVoters
        /\ Len(diag.unmatched) = qa.join_mismatches
        /\ Len(diag.county_mismatch) = qa.county_mismatches

\* a name of the form voter_stats_YYYYMMDD.txt
WellFormedName(n) ==
    /\ Len(n) = 10
    /\ n[1] = "voter_stats_"
    /\ n[10] = ".txt"
    /\ \A i \in 2..9 : n[i] \in Digits

\* the ISO date and the native label a well-formed name stands for
IsoOfName(n) == <<n[2], n[3], n[4], n[5], "-", n[6], n[7], "-", n[8], n[9]>>

LabelOfName(n) == <<n[6], n[7], "/", n[8], n[9], "/", n[2], n[3], n[4], n[5]>>

YearOfName(n) == DigitsValue(<<n[2], n[3], n[4], n[5]>>)

\* one pass of the loop body as a function of the census file f, the loaded
\* vote-event table and the loaded registry: the joined table and the buckets
JoinedOf(f, raw, attrs) ==
    VotedJoined(VotedNcids(NcvhisElectionAll(raw, LabelOfName(f.name))), attrs)

ElectionOfName(n) ==
    [mmddyyyy |-> LabelOfName(n), iso |-> IsoOfName(n), year |-> YearOfName(n)]

BucketsOf(f, raw, attrs) ==
    LET e == ElectionOfName(f.name)
    IN  TurnoutBuckets(
            VoterStatsDenominator(VoterStatsRaw(f.rows, "all"), e),
            VotedAggregated(VotedWithAge(VotedClean(JoinedOf(f, raw, attrs)), e.year), e.iso))

\* the well-formed files among the first n discovered files, in order
WellFormedUpTo(n) ==
    SelectSeq(SubSeq(in_files, 1, n), LAMBDA f : WellFormedName(f.name))

IsPrefix(s, t) == Len(s) <= Len(t) /\ SubSeq(t, 1, Len(s)) = s

\* the loop is at a file whose name is not well-formed
AtMalformedFile ==
    pc = "loop" /\ idx <= Len(in_files) /\ ~WellFormedName(in_files[idx].name)

\* C15 (step): the loop passes a file whose name yields no 8-digit token
\* with a warning, leaving the accumulated table, the QA rows and the output
\* unchanged, and goes on with the next file.
C15_SkipStep ==
    AtMalformedFile =>
        /\ turnout_all' = turnout_all
        /\ qa_rows' = qa_rows
        /\ out_csv' = out_csv
        /\ warnings' = Append(warnings, in_files[idx].name)
        /\ pc' = "loop"
        /\ idx' = idx + 1

\* C15 (result): the run does not abort on such a file, and at its end every
\* well-formed file, before or after a skipped one, has its QA row and its
\* bucket rows in the accumulated table; the skipped names are the warnings.
C15_AllWellFormedProcessed ==
    /\ pc # "crashed"
    /\ (pc = "exit" => in_files = <<>>)
    /\ pc = "done" =>
          /\ \A k \in DOMAIN in_files :
                WellFormedName(in_files[k].name) =>
                    /\ \E q \in DOMAIN qa_rows :
                          qa_rows[q].election_date = IsoOfName(in_files[k].name)
                    /\ Range(BucketsOf(in_files[k], ncvhis_raw, ncvoter_attrs))
                          \subseteq Range(turnout_all)
          /\ warnings = SelectSeq([k \in DOMAIN in_files |-> in_files[k].name],
                                  LAMBDA n : ~WellFormedName(n))

ExpectedQa(f) ==
    LET vj == JoinedOf(f, ncvhis_raw, ncvoter_attrs)
    IN  [election_date |-> IsoOfName(f.name),
         election_lbl  |-> LabelOfName(f.name),
         total_voted_ncids |-> Len(vj),
         join_mismatches_dropped |->
             Cardinality({i \in DOMAIN vj : vj[i].reg_county_desc = NULL}),
         county_mismatches_kept |->
             Cardinality({i \in DOMAIN vj :
                 /\ vj[i].reg_county_desc # NULL
                 /\ vj[i].voted_county_desc # NULL
                 /\ vj[i].voted_county_desc # vj[i].reg_county_desc})]

QaColumns ==
    {"election_date", "election_lbl", "total_voted_ncids", "join_mismatches_dropped",
     "county_mismatches_kept"}

\* C16: at the end of a multi-election run the QA summary has exactly one row
\* per census file with a well-formed name, in processing order and none for
\* a skipped file, and the row carries the election's ISO date, native label
\* and its own total_voted, join_mismatches and county_mismatches, also for
\* an election without vote events or without denominator rows.
C16_OneQaRowPerElection ==
    pc = "done" =>
        LET wf == WellFormedUpTo(Len(in_files))
        IN  /\ Len(qa_rows) = Len(wf)
            /\ \A k \in DOMAIN wf :
                  [c \in QaColumns |-> qa_rows[k][c]] = ExpectedQa(wf[k])

\* two elections and a skipped file: one election has no vote events, the
\* other has a join mismatch, a county mismatch and a census file without rows
C16_Witness ==
    /\ pc = "done"
    /\ Len(in_files) = 3
    /\ Len(qa_rows) = 2
    /\ qa_rows[1].total_voted_ncids = 2
    /\ qa_rows[1].join_mismatches_dropped = 1
    /\ qa_rows[1].county_mismatches_kept = 1
    /\ in_files[1].rows = <<>>
    /\ qa_rows[2].total_voted_ncids = 0

\* the position of a value in ascending order, a missing value last
Rank(x) == IF x = NULL THEN Len(Collation) + 1 ELSE PosIn(Collation, x)

\* the sort key of an output row as a sequence of positions
SortKey(r) ==
    [i \in 1..10 |-> PosIn(Collation, r.election_date[i])]
    \o <<Rank(r.county_desc), Rank(r.party_cd), Rank(r.race_code),
         Rank(r.ethnic_code), Rank(r.sex_code), Rank(r.age_group)>>

\* a <= b in lexicographic order (sequences of one length)
SeqLeq(a, b) ==
    \A i \in DOMAIN a : (\A j \in 1..(i - 1) : a[j] = b[j]) => a[i] <= b[i]

Ascending(t) == \A i \in 1..(Len(t) - 1) : SeqLeq(SortKey(t[i]), SortKey(t[i + 1]))

\* s and t hold the same rows, each as often
SameRows(s, t) ==
    \A x \in Range(s) \cup Range(t) :
        Cardinality({i \in DOMAIN s : s[i] = x}) = Cardinality({i \in DOMAIN t : t[i] = x})

\* the accumulated table of a run that processes the elections files in order
AccumulatedOf(files) ==
    Flatten([k \in DOMAIN files |-> BucketsOf(files[k], ncvhis_raw, ncvoter_attrs)])

\* C17 (step): the output is written by one step, after the last file of the
\* loop, and that step leaves the accumulated table as it is.
C17_SortStep ==
    out_csv' # out_csv =>
        /\ pc = "loop" /\ idx > Len(in_files) /\ pc' = "done"
        /\ out_csv = <<>>
        /\ turnout_all' = turnout_all

\* C17 (result): the output holds the accumulated rows in ascending order of
\* the seven key columns, and processing the same elections in any other
\* order yields the same sequence of rows.
C17_SortedOutput ==
    pc = "done" =>
        /\ Ascending(out_csv)
        /\ SameRows(out_csv, turnout_all)
        /\ LET wf == WellFormedUpTo(Len(in_files))
           IN  \A p \in Permutations(DOMAIN wf) :
                   SortedOrders(AccumulatedOf([k \in DOMAIN wf |-> wf[p[k]]])) = {out_csv}

\* C17: the combined output is sorted ascending by (election_date, county,
\* party, race, ethnicity, sex, age_group); the sort is applied once, after
\* all appends, and the output is the same sequence of rows for every order
\* in which the same elections are processed.
C17_FinalSort == [][C17_SortStep]_vars /\ []C17_SortedOutput

\* two elections, three rows: the rows of the 2025 election were appended in
\* descending key order and are written in ascending order
C17_Witness ==
    /\ pc = "done"
    /\ Len(out_csv) = 3
    /\ out_csv # turnout_all
    /\ out_csv[1].election_date # out_csv[3].election_date

\* the vote events of the log whose election label is that of census file f
SliceFor(f) == SelectSeq(in_ncvhis, LAMBDA r : r.election_lbl = LabelOfName(f.name))

\* the bucket rows and the QA row of the election of census file f processed
\* on its own, from f, its slice of the vote-event log and the registry
AloneBuckets(f) ==
    BucketsOf(f, LoadNcvhisAll(SliceFor(f)), LoadNcvoterAttrs(in_ncvoter))

AloneQa(f) ==
    QaRow(ElectionOfName(f.name),
          QaCounts(JoinedOf(f, LoadNcvhisAll(SliceFor(f)), LoadNcvoterAttrs(in_ncvoter))))

\* C18 (state): the accumulated table and the QA rows are the concatenation,
\* in processing order, of what each processed election yields on its own.
C18_PerElectionResults ==
    LET done == WellFormedUpTo(idx - 1)
        qaed == WellFormedUpTo(IF pc \in {"age", "recon"} THEN idx ELSE idx - 1)
    IN  /\ turnout_all = Flatten([k \in DOMAIN done |-> AloneBuckets(done[k])])
        /\ qa_rows = [k \in DOMAIN qaed |-> AloneQa(qaed[k])]
        /\ (pc = "loop" /\ idx > 1 /\ WellFormedName(in_files[idx - 1].name)) =>
               turnout_buckets = AloneBuckets(in_files[idx - 1])

\* C18 (step): a step only appends to the accumulated table and the QA rows.
C18_AppendOnly == IsPrefix(turnout_all, turnout_all') /\ IsPrefix(qa_rows, qa_rows')

\* C18: the bucket rows and the QA row of an election depend only on its
\* census file, the vote events with its label and the registry, the same
\* alone or among other elections; processing an election only appends, and
\* rows of earlier elections are never changed or removed.
C18_ElectionsIndependent == [][C18_AppendOnly]_vars /\ []C18_PerElectionResults

\* two elections in one run, each with a vote counted in one of its buckets
C18_Witness ==
    /\ pc = "done"
    /\ Len(qa_rows) = 2
    /\ Len(turnout_all) = 2
    /\ turnout_all[1].election_date # turnout_all[2].election_date
    /\ turnout_all[1].voted_count = 1
    /\ turnout_all[2].voted_count = 1

\* every count field of every census file parses as an integer
CountsParse ==
    \A k \in DOMAIN in_files : \A i \in DOMAIN in_files[k].rows :
        IntSyntax(in_files[k].rows[i].total_voters)

\* C19: when every count field of the census files parses as an integer,
\* registered_count >= 0 in every row of the denominator and turnout-bucket
\* tables and voted_count >= 0 in every row of the voted-bucket and
\* turnout-bucket tables.
C19_NonNegativeCounts ==
    CountsParse =>
        /\ \A i \in DOMAIN voter_stats_denominator :
              voter_stats_denominator[i].registered_count >= 0
        /\ \A i \in DOMAIN voted_aggregated : voted_aggregated[i].voted_count >= 0
        /\ \A t \in {turnout_buckets, turnout_all, out_csv} : \A i \in DOMAIN t :
              t[i].registered_count >= 0 /\ t[i].voted_count >= 0

\* C20: the voted counts of an election's numerator sum to at most the number
\* of distinct voter ids that voted in the election, whatever the registry
\* holds.
C20_AtMostOnePerVoter ==
    Aggregated => SumVoted(voted_aggregated) <= Cardinality(VoterIds(ncvhis_election))

\* C21: in the combined table of a multi-election run, and in the rows
\* written from it, every (election_date, county, party, race, ethnicity,
\* sex, age_group) key occurs in at most one row, whatever paths the glob
\* returned.
C21_KeysUniqueInCombined ==
    \A t \in {turnout_all, out_csv} : \A i, j \in DOMAIN t :
        i # j => KeyOf(t[i]) # KeyOf(t[j])

\* the rows of voter_stats_raw that voter_stats_denominator sums
CountedRows(raw, e) ==
    SelectSeq(raw, LAMBDA r : TextEq(r.election_date_raw, e.mmddyyyy) /\ IsVoterStat(r))

OtherScript == IF driver = "single" THEN "all" ELSE "single"

\* C22: for one census file and its election, the single-election script and
\* one iteration of the all-elections script produce the same turnout bucket
\* rows, with the same keys and registered counts; here on the table both
\* derive them from: the census rows that the denominator sums, and their
\* counts, are the same whichever script loaded the file.
C22_DriversEquivalent ==
    pc = "cast_done" =>
        CountedRows(voter_stats_raw, election)
            = CountedRows(VoterStatsRawRows(in_files[idx].rows, OtherScript), election)

====
